---- MODULE Spec2Model ----
(***************************************************************************)
(* Model of salt/pillar/ssm.py: the ext_pillar function that fetches       *)
(* pillar data for a minion from the AWS SSM parameter store.              *)
(*                                                                         *)
(* A Python string is modelled as a sequence of tokens.  The tokens "/",   *)
(* "{" and "}" are the characters that str.split and str.format give a     *)
(* meaning to; every other token ("env", "minion", "a", "prod", ...) is a  *)
(* non-empty run of ordinary characters.                                   *)
(*                                                                         *)
(* Line 109 of the source reads `[x in for x in ... if x]`, which is not   *)
(* valid Python; it is modelled as the comprehension it is one token away  *)
(* from, `[x for x in root.split('/') + pillar.split('/') if x]`.          *)
(***************************************************************************)
EXTENDS Integers, Sequences, FiniteSets, TLC

VARIABLES
    pc,          \* position of the current ext_pillar invocation
    minion_id,   \* argument
    pillar,      \* argument
    env,         \* argument
    root,        \* argument
    opts,        \* the __opts__ global: [pillarenv, saltenv]
    active_env,  \* local __env__ (line 105)
    path,        \* local path (lines 109-111)
    data,        \* local data (lines 104, 116)
    response,    \* local response (line 114)
    exc,         \* exception leaving ext_pillar, "none" when there is none
    result,      \* value returned to the caller
    requests,    \* paths handed to __salt__["boto_ssm.get_parameter"] by this invocation
    log,         \* records emitted through log by this invocation
    store,       \* the remote parameter store, as seen through the accessor
    prev         \* an earlier finished invocation against the same store

vars == <<pc, minion_id, pillar, env, root, opts, active_env, path, data,
          response, exc, result, requests, log, store, prev>>

----------------------------------------------------------------------------
(* Bounds *)

\* longest root and pillar, taken together, of the exhaustive enumeration
MaxLen == 3

----------------------------------------------------------------------------
(* Python values *)

\* Python's None; no string is equal to it
None == <<"<None>">>

\* bool(v) for a string or None
Truthy(v) == v # None /\ v # <<>>

\* a or b
Or(a, b) == IF Truthy(a) THEN a ELSE b

\* str(v), what str.format inserts for a value with an empty format spec
Str(v) == IF v = None THEN <<"None">> ELSE v

\* {}
EmptyMap == [k \in {} |-> <<>>]

\* d.get(key, default)
DictGet(d, key, default) == IF key \in DOMAIN d THEN d[key] ELSE default

\* index of the first "/" of s at or after i, 0 when there is none
RECURSIVE FindSlash(_, _)
FindSlash(s, i) ==
    IF i > Len(s) THEN 0
    ELSE IF s[i] = "/" THEN i
    ELSE FindSlash(s, i + 1)

\* s.split('/') : the segments between the slashes, empty ones included
RECURSIVE Split(_)
Split(s) ==
    LET j == FindSlash(s, 1)
    IN IF j = 0 THEN <<s>>
       ELSE <<SubSeq(s, 1, j - 1)>> \o Split(SubSeq(s, j + 1, Len(s)))

\* [x for x in parts if x]
RECURSIVE NonEmpty(_)
NonEmpty(parts) ==
    IF parts = <<>> THEN <<>>
    ELSE IF Head(parts) # <<>> THEN <<Head(parts)>> \o NonEmpty(Tail(parts))
    ELSE NonEmpty(Tail(parts))

\* '/'.join(parts)
RECURSIVE Join(_)
Join(parts) ==
    IF parts = <<>> THEN <<>>
    ELSE IF Len(parts) = 1 THEN Head(parts)
    ELSE Head(parts) \o <<"/">> \o Join(Tail(parts))

\* line 109 without the filter `if x`
JoinPath_NoFilter(r, p) == Join(<<<<>>>> \o (Split(r) \o Split(p)))

\* line 109: '/'.join([''] + [x for x in root.split('/') + pillar.split('/') if x])
JoinPath(r, p) == Join(<<<<>>>> \o NonEmpty(Split(r) \o Split(p)))

\* index of the first brace of s at or after i, 0 when there is none
RECURSIVE FindBrace(_, _)
FindBrace(s, i) ==
    IF i > Len(s) THEN 0
    ELSE IF s[i] \in {"{", "}"} THEN i
    ELSE FindBrace(s, i + 1)

\* s.format(**{name: value}) from position i on, acc being the output so far:
\* "{{" and "}}" are escapes, "{...}" is a replacement field looked up by
\* name, a field that is not `name` raises, a lone brace raises
RECURSIVE FormatFrom(_, _, _, _, _)
FormatFrom(s, i, name, value, acc) ==
    IF i > Len(s) THEN [exc |-> "none", str |-> acc]
    ELSE IF s[i] = "{" THEN
        IF i + 1 <= Len(s) /\ s[i + 1] = "{"
        THEN FormatFrom(s, i + 2, name, value, acc \o <<"{">>)
        ELSE LET j == FindBrace(s, i + 1)
             IN IF j = 0 \/ s[j] = "{" THEN [exc |-> "ValueError", str |-> <<>>]
                ELSE IF j = i + 1 THEN [exc |-> "IndexError", str |-> <<>>]
                ELSE IF SubSeq(s, i + 1, j - 1) = <<name>>
                THEN FormatFrom(s, j + 1, name, value, acc \o Str(value))
                ELSE [exc |-> "KeyError", str |-> <<>>]
    ELSE IF s[i] = "}" THEN
        IF i + 1 <= Len(s) /\ s[i + 1] = "}"
        THEN FormatFrom(s, i + 2, name, value, acc \o <<"}">>)
        ELSE [exc |-> "ValueError", str |-> <<>>]
    ELSE FormatFrom(s, i + 1, name, value, acc \o <<s[i]>>)

\* s.format(**{name: value})
Format(s, name, value) == FormatFrom(s, 1, name, value, <<>>)

----------------------------------------------------------------------------
(* The remote accessor *)

\* response bodies
PayloadData == [data |-> [password |-> "x"]]
PayloadNoData == [message |-> "y"]

\* what __salt__["boto_ssm.get_parameter"](path) can do: raise KeyError, or
\* return a response with a status code and a JSON body
KeyErrorOutcome == [raises |-> TRUE, status_code |-> 0, payload |-> EmptyMap]
Outcomes ==
    { [raises |-> FALSE, status_code |-> 200, payload |-> PayloadData],
      [raises |-> FALSE, status_code |-> 200, payload |-> PayloadNoData],
      [raises |-> FALSE, status_code |-> 404, payload |-> PayloadData],
      [raises |-> FALSE, status_code |-> 204, payload |-> PayloadNoData],
      KeyErrorOutcome }

\* response before line 114 has run
NoResponse == [raises |-> FALSE, status_code |-> 0, payload |-> EmptyMap]

\* the store distinguishes one parameter path from all other paths
AuthPath == <<"/", "auth">>
OtherPaths == <<"*">>
StoreKeys == {AuthPath, OtherPaths}
Stores == [StoreKeys -> Outcomes]

\* the outcome of get_parameter(p) against store s
Lookup(s, p) == IF p \in StoreKeys THEN s[p] ELSE s[OtherPaths]

----------------------------------------------------------------------------
(* Inputs *)

RootEnvMinion == <<"/", "{", "env", "}", "/", "{", "minion", "}">>
RootEnv == <<"/", "{", "env", "}">>

\* the arguments and options of the invocation sequences
Roots == {<<>>, RootEnv, RootEnvMinion}
Pillars == {<<>>, <<"auth">>}
Envs == {None, <<"prod">>}
MinionIds == {<<"web1">>}
OptsSet == [pillarenv : {None, <<"prod">>}, saltenv : {None, <<"dev">>}]

\* the strings of the exhaustive enumeration
Tokens == {"/", "{", "}", "env", "minion", "a"}
RECURSIVE StringsUpTo(_)
StringsUpTo(n) ==
    IF n = 0 THEN {<<>>}
    ELSE LET shorter == StringsUpTo(n - 1)
         IN shorter \cup {Append(s, t) : s \in {x \in shorter : Len(x) = n - 1}, t \in Tokens}

\* the (root, pillar) pairs of the exhaustive enumeration: every way of
\* cutting a string of at most MaxLen tokens in two, and the documented
\* patterns, which are longer
WideInputs ==
    UNION {{<<SubSeq(s, 1, k), SubSeq(s, k + 1, Len(s))>> : k \in 0..Len(s)} : s \in StringsUpTo(MaxLen)}
    \cup (Roots \X Pillars)
    \cup {<<<<"/", "{", "{", "minion", "}", "}">>, <<>>>>,
          <<<<"a">>, <<"{", "env", "}">>>>}
WideActiveEnvs == {None, <<>>, <<"prod">>, <<"{", "minion", "}">>, <<"a", "/", "a">>}
WideMinionIds == {<<"web1">>, <<"{", "env", "}">>, <<>>}

NoPrev == [set |-> FALSE]

Snapshot ==
    [set |-> TRUE, minion_id |-> minion_id, pillar |-> pillar, env |-> env,
     root |-> root, opts |-> opts, pc |-> pc, exc |-> exc, result |-> result]

----------------------------------------------------------------------------
(* Initial states *)

\* the state every specification starts an invocation from
Fresh ==
    /\ active_env = None
    /\ path = <<>>
    /\ data = EmptyMap
    /\ response = NoResponse
    /\ exc = "none"
    /\ result = EmptyMap
    /\ requests = <<>>
    /\ log = <<>>
    /\ prev = NoPrev

\* before the framework has invoked ext_pillar, against any store
Init ==
    /\ pc = "idle"
    /\ minion_id = <<"web1">>
    /\ pillar = <<>>
    /\ env = None
    /\ root = <<>>
    /\ opts = [pillarenv |-> None, saltenv |-> None]
    /\ store \in Stores
    /\ Fresh

\* one invocation whose scope check passes, on inputs of the exhaustive
\* enumeration, against a store that holds every parameter but /auth
InitPath ==
    /\ pc = "called"
    /\ minion_id \in WideMinionIds
    /\ \E rp \in WideInputs : root = rp[1] /\ pillar = rp[2]
    /\ opts \in [pillarenv : WideActiveEnvs, saltenv : {None, <<>>}]
    /\ env \in {None, opts.pillarenv}
    /\ store = [k \in StoreKeys |->
                   IF k = AuthPath THEN KeyErrorOutcome
                   ELSE [raises |-> FALSE, status_code |-> 200, payload |-> PayloadData]]
    /\ Fresh

----------------------------------------------------------------------------
(* The framework *)

\* the framework invokes ext_pillar(minion_id, pillar, env, root) under some
\* __opts__: a new frame whose locals are not bound yet; the previous
\* invocation may be kept for comparison
Call ==
    /\ pc \in {"idle", "returned", "raised"}
    /\ \E m \in MinionIds, p \in Pillars, e \in Envs, r \in Roots, o \in OptsSet :
          /\ minion_id' = m
          /\ pillar' = p
          /\ env' = e
          /\ root' = r
          /\ opts' = o
    /\ prev' \in (IF pc = "idle" THEN {prev} ELSE {prev, Snapshot})
    /\ active_env' = None
    /\ path' = <<>>
    /\ response' = NoResponse
    /\ exc' = "none"
    /\ result' = EmptyMap
    /\ requests' = <<>>
    /\ log' = <<>>
    /\ pc' = "called"
    /\ UNCHANGED <<data, store>>

\* a parameter of the remote store is put, changed or deleted between invocations
StoreChange ==
    /\ pc \in {"idle", "returned", "raised"}
    /\ \E k \in StoreKeys, o \in Outcomes :
          /\ store[k] # o
          /\ store' = [store EXCEPT ![k] = o]
    /\ prev' = NoPrev
    /\ pc' = "idle"
    /\ UNCHANGED <<minion_id, pillar, env, root, opts, active_env, path, data,
                   response, exc, result, requests, log>>

----------------------------------------------------------------------------
(* ext_pillar *)

\* lines 104-105 with `data = {}` left out
Enter_StaleData ==
    /\ pc = "called"
    /\ active_env' = Or(opts.pillarenv, opts.saltenv)
    /\ pc' = "scope"
    /\ UNCHANGED <<minion_id, pillar, env, root, opts, path, data, response, exc,
                   result, requests, log, store, prev>>

\* lines 104-105: data = {}; __env__ = pillarenv or saltenv
Enter ==
    /\ pc = "called"
    /\ data' = EmptyMap
    /\ active_env' = Or(opts.pillarenv, opts.saltenv)
    /\ pc' = "scope"
    /\ UNCHANGED <<minion_id, pillar, env, root, opts, path, response, exc,
                   result, requests, log, store, prev>>

\* lines 106-108 with the comparison inverted
ScopeCheck_Inverted ==
    /\ pc = "scope"
    /\ IF Truthy(env) /\ env = active_env
       THEN /\ result' = data
            /\ pc' = "returned"
       ELSE /\ pc' = "join"
            /\ UNCHANGED result
    /\ UNCHANGED <<minion_id, pillar, env, root, opts, active_env, path, data,
                   response, exc, requests, log, store, prev>>

\* lines 106-108: if env: if env != __env__: return data
ScopeCheck ==
    /\ pc = "scope"
    /\ IF Truthy(env) /\ env # active_env
       THEN /\ result' = data
            /\ pc' = "returned"
       ELSE /\ pc' = "join"
            /\ UNCHANGED result
    /\ UNCHANGED <<minion_id, pillar, env, root, opts, active_env, path, data,
                   response, exc, requests, log, store, prev>>

\* line 109: path = '/'.join(...)
BuildPath ==
    /\ pc = "join"
    /\ path' = JoinPath(root, pillar)
    /\ pc' = "fmt_env"
    /\ UNCHANGED <<minion_id, pillar, env, root, opts, active_env, data,
                   response, exc, result, requests, log, store, prev>>

\* line 110: path = path.format(**{"env": __env__}); an exception of format
\* is outside the try block and leaves ext_pillar
FormatEnv ==
    /\ pc = "fmt_env"
    /\ LET f == Format(path, "env", active_env)
       IN IF f.exc = "none"
          THEN /\ path' = f.str
               /\ pc' = "fmt_minion"
               /\ UNCHANGED exc
          ELSE /\ exc' = f.exc
               /\ pc' = "raised"
               /\ UNCHANGED path
    /\ UNCHANGED <<minion_id, pillar, env, root, opts, active_env, data,
                   response, result, requests, log, store, prev>>

\* line 111 followed by a second `{env}` pass over the result
FormatMinion_Recursive ==
    /\ pc = "fmt_minion"
    /\ LET f == Format(path, "minion", minion_id)
           g == Format(f.str, "env", active_env)
       IN IF f.exc = "none" /\ g.exc = "none"
          THEN /\ path' = g.str
               /\ pc' = "fetch"
               /\ UNCHANGED exc
          ELSE /\ exc' = IF f.exc = "none" THEN g.exc ELSE f.exc
               /\ pc' = "raised"
               /\ UNCHANGED path
    /\ UNCHANGED <<minion_id, pillar, env, root, opts, active_env, data,
                   response, result, requests, log, store, prev>>

\* line 111: path = path.format(**{"minion": minion_id})
FormatMinion ==
    /\ pc = "fmt_minion"
    /\ LET f == Format(path, "minion", minion_id)
       IN IF f.exc = "none"
          THEN /\ path' = f.str
               /\ pc' = "fetch"
               /\ UNCHANGED exc
          ELSE /\ exc' = f.exc
               /\ pc' = "raised"
               /\ UNCHANGED path
    /\ UNCHANGED <<minion_id, pillar, env, root, opts, active_env, data,
                   response, result, requests, log, store, prev>>

\* line 114: response = __salt__["boto_ssm.get_parameter"](path)
GetParameter ==
    /\ pc = "fetch"
    /\ requests' = Append(requests, path)
    /\ LET o == Lookup(store, path)
       IN IF o.raises
          THEN /\ pc' = "except"
               /\ UNCHANGED response
          ELSE /\ response' = o
               /\ pc' = "handle"
    /\ UNCHANGED <<minion_id, pillar, env, root, opts, active_env, path, data,
                   exc, result, log, store, prev>>

\* lines 115-118 without the status test
HandleResponse_NoStatusTest ==
    /\ pc = "handle"
    /\ data' = DictGet(response.payload, "data", EmptyMap)
    /\ UNCHANGED log
    /\ pc' = "return"
    /\ UNCHANGED <<minion_id, pillar, env, root, opts, active_env, path,
                   response, exc, result, requests, store, prev>>

\* lines 115-118 returning the whole body
HandleResponse_WholeBody ==
    /\ pc = "handle"
    /\ IF response.status_code = 200
       THEN /\ data' = response.payload
            /\ UNCHANGED log
       ELSE /\ log' = Append(log, [level |-> "info", path |-> path])
            /\ UNCHANGED data
    /\ pc' = "return"
    /\ UNCHANGED <<minion_id, pillar, env, root, opts, active_env, path,
                   response, exc, result, requests, store, prev>>

\* lines 115-118: data = response.json().get("data", {}) on status 200,
\* log.info otherwise
HandleResponse ==
    /\ pc = "handle"
    /\ IF response.status_code = 200
       THEN /\ data' = DictGet(response.payload, "data", EmptyMap)
            /\ UNCHANGED log
       ELSE /\ log' = Append(log, [level |-> "info", path |-> path])
            /\ UNCHANGED data
    /\ pc' = "return"
    /\ UNCHANGED <<minion_id, pillar, env, root, opts, active_env, path,
                   response, exc, result, requests, store, prev>>

\* lines 119-120 with the KeyError let through
ExceptKeyError_Uncaught ==
    /\ pc = "except"
    /\ exc' = "KeyError"
    /\ pc' = "raised"
    /\ UNCHANGED <<minion_id, pillar, env, root, opts, active_env, path, data,
                   response, result, requests, log, store, prev>>

\* lines 119-120: except KeyError: log.error(...)
ExceptKeyError ==
    /\ pc = "except"
    /\ log' = Append(log, [level |-> "error", path |-> path])
    /\ pc' = "return"
    /\ UNCHANGED <<minion_id, pillar, env, root, opts, active_env, path, data,
                   response, exc, result, requests, store, prev>>

\* line 122: return data
Return ==
    /\ pc = "return"
    /\ result' = data
    /\ pc' = "returned"
    /\ UNCHANGED <<minion_id, pillar, env, root, opts, active_env, path, data,
                   response, exc, requests, log, store, prev>>

----------------------------------------------------------------------------
(* Specifications *)

Next ==
    \/ Call
    \/ StoreChange
    \/ Enter
    \/ ScopeCheck
    \/ BuildPath
    \/ FormatEnv
    \/ FormatMinion
    \/ GetParameter
    \/ HandleResponse
    \/ ExceptKeyError
    \/ Return

\* sequences of invocations against a store that changes between them
Spec == Init /\ [][Next]_vars

NextPath ==
    \/ Enter
    \/ ScopeCheck
    \/ BuildPath
    \/ FormatEnv
    \/ FormatMinion
    \/ GetParameter
    \/ HandleResponse
    \/ ExceptKeyError
    \/ Return

\* one invocation on each input of the exhaustive enumeration
SpecPath == InitPath /\ [][NextPath]_vars

----------------------------------------------------------------------------
(* Observations *)

\* the invocation has ended, by return or by exception
Done == pc \in {"returned", "raised"}

\* the invocation has passed lines 104-105
Entered == pc \notin {"idle", "called"}

\* the condition of lines 106-107
ScopeMismatch == Truthy(env) /\ env # Or(opts.pillarenv, opts.saltenv)

\* number of calls of boto_ssm.get_parameter made by the invocation
Calls == Len(requests)

\* s contains no "{" and no "}"
BraceFree(s) == \A i \in 1..Len(s) : s[i] \notin {"{", "}"}

\* s contains no "/"
SlashFree(s) == \A i \in 1..Len(s) : s[i] # "/"

\* s begins with exactly one "/" and none of its segments is empty
WellShaped(s) ==
    /\ Len(s) >= 2
    /\ s[1] = "/"
    /\ s[Len(s)] # "/"
    /\ \A i \in 1..(Len(s) - 1) : ~(s[i] = "/" /\ s[i + 1] = "/")

\* root or pillar has a non-empty segment
HasSegment == (\E i \in 1..Len(root) : root[i] # "/") \/ (\E i \in 1..Len(pillar) : pillar[i] # "/")

\* s is a non-empty string without "/", "{" and "}"
PlainValue(s) == s # <<>> /\ SlashFree(s) /\ BraceFree(s)

\* s is a brace-free prefix followed by the placeholder {env}
EndsWithEnvField(s) ==
    /\ Len(s) >= 3
    /\ SubSeq(s, Len(s) - 2, Len(s)) = <<"{", "env", "}">>
    /\ BraceFree(SubSeq(s, 1, Len(s) - 3))

----------------------------------------------------------------------------
(* Claims *)

\* C1: an invocation whose env is set and differs from the active
\* environment never gets past the scope check, calls get_parameter zero
\* times and returns an empty mapping.
C1_ScopeMismatchReturnsEmpty ==
    (Entered /\ ScopeMismatch) =>
        /\ pc \in {"scope", "returned"}
        /\ Calls = 0
        /\ (Done => (result = EmptyMap /\ exc = "none"))

C1_Witness ==
    /\ pc = "returned"
    /\ env = <<"prod">>
    /\ active_env = <<"dev">>
    /\ result = EmptyMap
    /\ requests = <<>>

\* C2: an invocation whose env is unset or equal to the active environment
\* has called get_parameter exactly once when it ends, whatever root and
\* pillar carry.
C2_ExactlyOneCall ==
    (Done /\ ~ScopeMismatch) => Calls = 1

\* C3: ext_pillar never raises: every invocation ends by returning a
\* mapping, which is empty unless the accessor reported success.
C3_NeverRaises ==
    /\ pc # "raised"
    /\ exc = "none"
    /\ (pc = "returned" /\ response.status_code # 200) => result = EmptyMap

\* C5: the accessor receives the path with `{env}` replaced by the active
\* environment and `{minion}` by minion_id: "/prod/web1" for root
\* "/{env}/{minion}", active environment "prod", minion "web1" and an empty
\* pillar, and "/auth" for an empty root and pillar "auth".
C5_PlaceholdersReplaced ==
    (Done /\ ~ScopeMismatch) =>
        /\ (root = RootEnvMinion /\ pillar = <<>> /\ active_env = <<"prod">>
                /\ minion_id = <<"web1">>)
             => requests = << <<"/", "prod", "/", "web1">> >>
        /\ (root = <<>> /\ pillar = <<"auth">>) => requests = << <<"/", "auth">> >>

\* C6: when the accessor reports status 200, ext_pillar returns the mapping
\* held in the body's `data` field, and an empty mapping when the body has
\* no `data` field.
C6_SuccessReturnsData ==
    (Done /\ Calls = 1 /\ response.status_code = 200) =>
        /\ pc = "returned"
        /\ ("data" \in DOMAIN response.payload => result = response.payload.data)
        /\ ("data" \notin DOMAIN response.payload => result = EmptyMap)

C6_Witness ==
    /\ pc = "returned"
    /\ response.status_code = 200
    /\ response.payload = [data |-> [password |-> "x"]]
    /\ result = [password |-> "x"]

\* C7: when the accessor returns a response whose status is not 200,
\* ext_pillar returns an empty mapping whatever the body holds, and logs
\* one informational record and no error record.
C7_NotFoundReturnsEmpty ==
    (Done /\ Calls = 1 /\ response # NoResponse /\ response.status_code # 200) =>
        /\ pc = "returned"
        /\ result = EmptyMap
        /\ log = <<[level |-> "info", path |-> requests[1]]>>

C7_Witness ==
    /\ pc = "returned"
    /\ response.status_code = 404
    /\ "data" \in DOMAIN response.payload
    /\ result = EmptyMap
    /\ Len(log) = 1
    /\ log[1].level = "info"

\* C8: when the accessor call raises KeyError, ext_pillar catches it,
\* returns an empty mapping and logs one error record naming the path.
C8_KeyErrorCaught ==
    (Done /\ Calls = 1 /\ Lookup(store, requests[1]).raises) =>
        /\ pc = "returned"
        /\ exc = "none"
        /\ result = EmptyMap
        /\ log = <<[level |-> "error", path |-> requests[1]]>>

C8_Witness ==
    /\ pc = "returned"
    /\ Calls = 1
    /\ Lookup(store, requests[1]).raises
    /\ result = EmptyMap
    /\ log = <<[level |-> "error", path |-> <<"/", "auth">>]>>

====
